---- MODULE Spec2Model ----
(***************************************************************************)
(* Model of rash_core/src/jinja/mod.rs: the recursive renderer `render`,   *)
(* `render_string`, `is_render_string`, the error classifier               *)
(* `map_minijinja_error` and the lazily built shared engine                 *)
(* `MINIJINJA_ENV`.                                                         *)
(*                                                                          *)
(* The template engine (minijinja) and the YAML parser (serde_yaml) are     *)
(* libraries; they are modelled by what they do on a finite universe of     *)
(* template sources and texts:                                              *)
(*   - filter and call arguments are evaluated before the filter is         *)
(*     applied, so `x | default(omit())` calls omit() whether or not x is   *)
(*     bound;                                                               *)
(*   - `context! { ..first, ..second }` resolves a name in `first` before   *)
(*     `second` (precedence is left to right);                              *)
(*   - under UndefinedBehavior::Strict printing or testing an undefined     *)
(*     value is an UndefinedError without detail.                           *)
(***************************************************************************)
EXTENDS Integers, Sequences, FiniteSets, TLC

VARIABLES pc, vars, op, value, src, result, engine,
          lazy, initCount, envs, tpc, tsrc, tenv, tout

pureVars == <<pc, vars, op, value, src, result, engine>>
concVars == <<lazy, initCount, envs, tpc, tsrc, tenv, tout>>
allVars == <<pc, vars, op, value, src, result, engine,
             lazy, initCount, envs, tpc, tsrc, tenv, tout>>

(***************************************************************************)
(* Bounds of the model.                                                     *)
(***************************************************************************)
MaxNum == 1
MaxLen == 2
NThreads == 2

(***************************************************************************)
(* serde_yaml::Value.  One record shape for every variant.                  *)
(***************************************************************************)
YamlValue(k, b, n, s, items, entries) ==
    [k |-> k, b |-> b, n |-> n, s |-> s, items |-> items, entries |-> entries]

Null == YamlValue("null", FALSE, 0, "", <<>>, <<>>)
Tagged == YamlValue("tagged", FALSE, 0, "", <<>>, <<>>)
Bool(b) == YamlValue("bool", b, 0, "", <<>>, <<>>)
Num(n) == YamlValue("num", FALSE, n, "", <<>>, <<>>)
Str(s) == YamlValue("str", FALSE, 0, s, <<>>, <<>>)
SeqV(items) == YamlValue("seq", FALSE, 0, "", items, <<>>)
MapV(entries) == YamlValue("map", FALSE, 0, "", <<>>, entries)
Entry(key, val) == [key |-> key, val |-> val]

(***************************************************************************)
(* crate::error::Error and the three outcomes of a call: a value, an Err,  *)
(* or a panic (unwrap on None).                                             *)
(***************************************************************************)
Error(kind, msg) == [kind |-> kind, msg |-> msg]
NoError == Error("", "")

Outcome(st, v, text, b, e) == [st |-> st, v |-> v, text |-> text, b |-> b, e |-> e]
OkValue(v) == Outcome("ok", v, "", FALSE, NoError)
OkText(t) == Outcome("ok", Null, t, FALSE, NoError)
OkBool(b) == Outcome("ok", Null, "", b, NoError)
Err(e) == Outcome("err", Null, "", FALSE, e)
Panic == Outcome("panic", Null, "", FALSE, NoError)
NoOutcome == Outcome("none", Null, "", FALSE, NoError)

(***************************************************************************)
(* minijinja::Error: a kind and an optional detail.                         *)
(***************************************************************************)
NoDetail == [some |-> FALSE, text |-> ""]
Detail(t) == [some |-> TRUE, text |-> t]
MinijinjaError(kind, detail) == [kind |-> kind, detail |-> detail]
NoEngineError == MinijinjaError("", NoDetail)
EngineOk(text) == [ok |-> TRUE, text |-> text, err |-> NoEngineError]
EngineErr(e) == [ok |-> FALSE, text |-> "", err |-> e]

OMIT_MESSAGE == "Param is omitted"

omit == EngineErr(MinijinjaError("InvalidOperation", Detail(OMIT_MESSAGE)))

(***************************************************************************)
(* The engine's configuration as init_env builds it.  `templates` maps a    *)
(* registered name to its source.                                           *)
(***************************************************************************)
NoTemplates == [x \in {} |-> ""]

init_envLenient ==
    [keep_trailing_newline |-> TRUE, undefined_behavior |-> "Lenient",
     functions |-> {"omit"}, templates |-> NoTemplates]

init_env ==
    [keep_trailing_newline |-> TRUE, undefined_behavior |-> "Strict",
     functions |-> {"omit"}, templates |-> NoTemplates]

MINIJINJA_ENV == init_env

(***************************************************************************)
(* Scopes (minijinja context values): a function from bound names to        *)
(* values.                                                                  *)
(***************************************************************************)
Bind(name, v) == [x \in {name} |-> v]

context_mergeLastWins(first, second) ==
    [x \in DOMAIN first \cup DOMAIN second |->
        IF x \in DOMAIN second THEN second[x] ELSE first[x]]

context_merge(first, second) ==
    [x \in DOMAIN first \cup DOMAIN second |->
        IF x \in DOMAIN first THEN first[x] ELSE second[x]]

(***************************************************************************)
(* Template sources of the model and what the engine compiles them to.     *)
(***************************************************************************)
Names == {"a", "b"}
VarTemplate(x) == "{{ " \o x \o " }}"
DefaultOmitTemplate(x) == "{{ " \o x \o " | default(omit()) }}"
NumTemplate(n) == "{{ " \o ToString(n) \o " }}"
IfTemplate(s) == "{% if " \o s \o " %}true{% else %}false{% endif %}"

CondExprs == {"true", "false", "a", "a == 'test'", "omit()", "a =="}
BadCondExprs == {"a =="}

Templates ==
    {"yea", "[", "{{ a", "{{ 1 / 0 }}", "{{ omit() }}"}
    \cup {VarTemplate(x) : x \in Names}
    \cup {DefaultOmitTemplate(x) : x \in Names}
    \cup {NumTemplate(n) : n \in 0..MaxNum}

Ast(o, name, text) == [o |-> o, name |-> name, text |-> text]

Compile(s) ==
    CASE s = "{{ a" -> Ast("syntax", "", "")
      [] s = "{{ 1 / 0 }}" -> Ast("div0", "", "")
      [] s = "{{ omit() }}" -> Ast("omit", "", "")
      [] \E x \in Names : s = VarTemplate(x) ->
            Ast("var", CHOOSE x \in Names : s = VarTemplate(x), "")
      [] \E x \in Names : s = DefaultOmitTemplate(x) ->
            Ast("default_omit", CHOOSE x \in Names : s = DefaultOmitTemplate(x), "")
      [] \E n \in 0..MaxNum : s = NumTemplate(n) ->
            Ast("lit", "", ToString(CHOOSE n \in 0..MaxNum : s = NumTemplate(n)))
      [] \E e \in CondExprs : s = IfTemplate(e) ->
            LET e == CHOOSE c \in CondExprs : s = IfTemplate(c)
            IN IF e \in BadCondExprs THEN Ast("syntax", "", "") ELSE Ast("if", "", e)
      [] OTHER -> Ast("lit", "", s)

(***************************************************************************)
(* How the engine prints a value, and its truth value.  The templates of    *)
(* the model print names bound to scalars only: sequences and mappings are  *)
(* bound under the key "m", which no template mentions, so from_str never   *)
(* meets the text of a flow collection.                                     *)
(***************************************************************************)
RECURSIVE Fmt(_), FmtItems(_), FmtEntries(_)
Fmt(v) ==
    CASE v.k = "num" -> ToString(v.n)
      [] v.k = "str" -> v.s
      [] v.k = "bool" -> IF v.b THEN "true" ELSE "false"
      [] v.k = "seq" -> "[" \o FmtItems(v.items) \o "]"
      [] v.k = "map" -> "{" \o FmtEntries(v.entries) \o "}"
      [] OTHER -> "none"
FmtItems(items) ==
    IF items = <<>> THEN ""
    ELSE Fmt(Head(items)) \o (IF Len(items) > 1 THEN ", " ELSE "") \o FmtItems(Tail(items))
FmtEntries(entries) ==
    IF entries = <<>> THEN ""
    ELSE Fmt(Head(entries).key) \o ": " \o Fmt(Head(entries).val)
         \o (IF Len(entries) > 1 THEN ", " ELSE "") \o FmtEntries(Tail(entries))

IsTrue(v) ==
    CASE v.k = "num" -> v.n # 0
      [] v.k = "str" -> v.s # ""
      [] v.k = "bool" -> v.b
      [] v.k = "seq" -> v.items # <<>>
      [] v.k = "map" -> v.entries # <<>>
      [] OTHER -> FALSE

UndefinedError == MinijinjaError("UndefinedError", NoDetail)
SyntaxError == MinijinjaError("SyntaxError", Detail("unexpected end of input"))

(* A name that is not bound prints as empty text unless the environment is  *)
(* strict.                                                                  *)
EmitVar(env, scope, x) ==
    IF x \in DOMAIN scope THEN EngineOk(Fmt(scope[x]))
    ELSE IF env.undefined_behavior = "Strict" THEN EngineErr(UndefinedError)
    ELSE EngineOk("")

EvalCond(env, scope, e) ==
    CASE e = "true" -> EngineOk("true")
      [] e = "false" -> EngineOk("false")
      [] e = "omit()" -> omit
      [] e = "a" ->
            IF "a" \in DOMAIN scope
            THEN EngineOk(IF IsTrue(scope["a"]) THEN "true" ELSE "false")
            ELSE IF env.undefined_behavior = "Strict" THEN EngineErr(UndefinedError)
            ELSE EngineOk("false")
      [] OTHER ->
            EngineOk(IF "a" \in DOMAIN scope /\ scope["a"] = Str("test")
                     THEN "true" ELSE "false")

(* Template::render: the arguments of a filter are evaluated before the     *)
(* filter, so default(omit()) fails in omit() for a bound name too.         *)
TemplateRender(env, s, scope) ==
    LET ast == Compile(s) IN
    CASE ast.o = "lit" -> EngineOk(ast.text)
      [] ast.o = "var" -> EmitVar(env, scope, ast.name)
      [] ast.o = "omit" -> omit
      [] ast.o = "default_omit" -> omit
      [] ast.o = "div0" ->
            EngineErr(MinijinjaError("InvalidOperation", Detail("divide by zero")))
      [] ast.o = "if" -> EvalCond(env, scope, ast.text)
      [] OTHER -> EngineErr(SyntaxError)

(* Environment::add_template compiles the source and registers it.          *)
add_template(env, name, s) ==
    IF Compile(s).o = "syntax"
    THEN [ok |-> FALSE, env |-> env, err |-> SyntaxError]
    ELSE [ok |-> TRUE,
          env |-> [env EXCEPT !.templates =
                      [x \in DOMAIN env.templates \cup {name} |->
                          IF x = name THEN s ELSE env.templates[x]]],
          err |-> NoEngineError]

get_template(env, name) ==
    IF name \in DOMAIN env.templates
    THEN [ok |-> TRUE, s |-> env.templates[name], err |-> NoEngineError]
    ELSE [ok |-> FALSE, s |-> "",
          err |-> MinijinjaError("TemplateNotFound", Detail("template not found"))]

(***************************************************************************)
(* Conversions into crate::error::Error.                                    *)
(***************************************************************************)
Display(e) == IF e.detail.some THEN e.kind \o ": " \o e.detail.text ELSE e.kind
FromMinijinjaError(e) == Error("RenderFailed", Display(e))
FromYamlError == Error("RenderFailed", "yaml")

map_minijinja_errorByKind(e) ==
    IF e.kind = "InvalidOperation"
    THEN Error("OmitParam", OMIT_MESSAGE)
    ELSE FromMinijinjaError(e)

map_minijinja_error(e) ==
    LET f == IF e.detail.some THEN <<e.detail.text = OMIT_MESSAGE>> ELSE <<>>
    IN IF f = <<TRUE>> THEN Error("OmitParam", OMIT_MESSAGE)
       ELSE FromMinijinjaError(e)

(***************************************************************************)
(* render_string, split at the engine so that the raw engine outcome can    *)
(* be recorded next to the result.                                          *)
(***************************************************************************)
RenderStringIn(env0, s, scope) ==
    LET added == add_template(env0, "t", s) IN
    IF ~added.ok
    THEN [out |-> Err(FromMinijinjaError(added.err)), engine |-> EngineErr(added.err)]
    ELSE LET tmpl == get_template(added.env, "t") IN
         IF ~tmpl.ok
         THEN [out |-> Err(map_minijinja_error(tmpl.err)), engine |-> EngineErr(tmpl.err)]
         ELSE LET r == TemplateRender(added.env, tmpl.s, scope) IN
              [out |-> IF r.ok THEN OkText(r.text) ELSE Err(map_minijinja_error(r.err)),
               engine |-> r]

render_string(s, scope) == RenderStringIn(MINIJINJA_ENV, s, scope).out

is_render_stringSwapped(s, scope) ==
    LET r == render_string(IfTemplate(s), scope) IN
    IF r.st # "ok" THEN r
    ELSE IF r.text = "false" THEN OkBool(TRUE) ELSE OkBool(FALSE)

is_render_string(s, scope) ==
    LET r == render_string(IfTemplate(s), scope) IN
    IF r.st # "ok" THEN r
    ELSE IF r.text = "false" THEN OkBool(FALSE) ELSE OkBool(TRUE)

(***************************************************************************)
(* serde_yaml::from_str on the texts of the model: plain scalars, and the  *)
(* unclosed flow sequence "[" as the text that does not parse.              *)
(***************************************************************************)
from_str(text) ==
    CASE text \in {"", "~", "null"} -> [ok |-> TRUE, v |-> Null]
      [] text = "true" -> [ok |-> TRUE, v |-> Bool(TRUE)]
      [] text = "false" -> [ok |-> TRUE, v |-> Bool(FALSE)]
      [] text = "[" -> [ok |-> FALSE, v |-> Null]
      [] \E n \in 0..MaxNum : text = ToString(n) ->
            [ok |-> TRUE, v |-> Num(CHOOSE n \in 0..MaxNum : text = ToString(n))]
      [] OTHER -> [ok |-> TRUE, v |-> Str(text)]

(***************************************************************************)
(* render.                                                                  *)
(***************************************************************************)
RECURSIVE render(_, _), RenderSeq(_, _, _), RenderMap(_, _, _),
          RenderSeqShared(_, _, _), RenderSeqKeepGoing(_, _, _), renderNoBoolArm(_, _)

(* Mapping::insert: a key already present keeps its place.                  *)
Insert(entries, key, val) ==
    IF \E i \in 1..Len(entries) : entries[i].key = key
    THEN [i \in 1..Len(entries) |->
             IF entries[i].key = key THEN Entry(key, val) ELSE entries[i]]
    ELSE Append(entries, Entry(key, val))

(* The bindings a rendered mapping would add to a scope.                    *)
RECURSIVE BindAll(_, _)
BindAll(scope, entries) ==
    IF entries = <<>> THEN scope
    ELSE BindAll(IF Head(entries).key.k = "str"
                 THEN context_mergeLastWins(scope, Bind(Head(entries).key.s, Head(entries).val))
                 ELSE scope,
                 Tail(entries))

(* A sequence whose elements share one running scope.                       *)
RenderSeqShared(items, scope, acc) ==
    IF items = <<>> THEN OkValue(SeqV(acc))
    ELSE LET r == render(Head(items), scope) IN
         IF r.st # "ok" THEN r
         ELSE RenderSeqShared(Tail(items),
                              IF r.v.k = "map" THEN BindAll(scope, r.v.entries) ELSE scope,
                              Append(acc, r.v))

(* A sequence that renders every element and reports the last failure.      *)
RenderSeqKeepGoing(items, scope, acc) ==
    IF items = <<>> THEN OkValue(SeqV(acc))
    ELSE LET r == render(Head(items), scope)
             rest == RenderSeqKeepGoing(Tail(items), scope, Append(acc, r.v))
         IN IF r.st = "ok" \/ rest.st # "ok" THEN rest ELSE r

(* v.iter().map(|x| render(x.clone(), vars)).collect::<Result<Vec<_>>>()    *)
RenderSeq(items, scope, acc) ==
    IF items = <<>> THEN OkValue(SeqV(acc))
    ELSE LET r == render(Head(items), scope) IN
         IF r.st # "ok" THEN r
         ELSE RenderSeq(Tail(items), scope, Append(acc, r.v))

(* for (k, v) in x.iter() { ... }                                           *)
RenderMap(entries, current_vars, rendered_map) ==
    IF entries = <<>> THEN OkValue(MapV(rendered_map))
    ELSE LET k == Head(entries).key
             r == render(Head(entries).val, current_vars)
         IN IF r.st # "ok" THEN r
            ELSE IF k.k # "str" THEN Panic
            ELSE RenderMap(Tail(entries),
                           context_merge(current_vars, Bind(k.s, r.v)),
                           Insert(rendered_map, k, r.v))

(* render without the arm for booleans.                                     *)
renderNoBoolArm(v, scope) ==
    CASE v.k = "str" ->
            LET r == render_string(v.s, scope) IN
            IF r.st # "ok" THEN r
            ELSE LET p == from_str(r.text) IN
                 IF p.ok THEN OkValue(p.v) ELSE Err(FromYamlError)
      [] v.k = "num" -> OkValue(v)
      [] v.k = "seq" -> RenderSeq(v.items, scope, <<>>)
      [] v.k = "map" -> RenderMap(v.entries, scope, <<>>)
      [] OTHER -> Err(Error("InvalidData", "not a valid render value"))

render(v, scope) ==
    CASE v.k = "str" ->
            LET r == render_string(v.s, scope) IN
            IF r.st # "ok" THEN r
            ELSE LET p == from_str(r.text) IN
                 IF p.ok THEN OkValue(p.v) ELSE Err(FromYamlError)
      [] v.k = "num" -> OkValue(v)
      [] v.k = "bool" -> OkValue(v)
      [] v.k = "seq" -> RenderSeq(v.items, scope, <<>>)
      [] v.k = "map" -> RenderMap(v.entries, scope, <<>>)
      [] OTHER -> Err(Error("InvalidData", "not a valid render value"))

(***************************************************************************)
(* The inputs of the model.                                                 *)
(***************************************************************************)
ScopeVals == {Num(n) : n \in 0..MaxNum} \cup {Str("test")}
Scopes == UNION {[D -> ScopeVals] : D \in SUBSET Names}

TreeTemplates ==
    {"[", "{{ 1 }}", VarTemplate("a"), VarTemplate("b"), DefaultOmitTemplate("a")}
ElemLeaf == {Null, Num(0)} \cup {Str(t) : t \in TreeTemplates}
Leaf ==
    {Null, Tagged, Bool(TRUE), Bool(FALSE)} \cup {Num(n) : n \in 0..MaxNum}
    \cup {Str(t) : t \in Templates}
Keys == {Str("a"), Str("b"), Num(0)}

TuplesUpTo(S, n) == UNION {[1..m -> S] : m \in 0..n}
Injective(f) == \A i, j \in DOMAIN f : f[i] = f[j] => i = j
KeyOrders == {ks \in TuplesUpTo(Keys, MaxLen) : Injective(ks)}

Seqs == {SeqV(items) : items \in TuplesUpTo(ElemLeaf, MaxLen)}
Maps ==
    UNION {{MapV([i \in 1..Len(ks) |-> Entry(ks[i], vs[i])]) :
               vs \in [1..Len(ks) -> ElemLeaf]} : ks \in KeyOrders}
OneKeyMaps == {MapV(<<Entry(Str(x), l)>>) : x \in Names, l \in ElemLeaf}
Nested ==
    {SeqV(<<m, l>>) : m \in OneKeyMaps, l \in ElemLeaf}
    \cup {MapV(<<Entry(Str("m"), m), Entry(Str("b"), l)>>) : m \in OneKeyMaps, l \in ElemLeaf}
    \cup {MapV(<<e, Entry(Str("m"), MapV(<<Entry(Str("b"), l)>>))>>) :
             e \in {Entry(Str("a"), x) : x \in ElemLeaf}, l \in ElemLeaf}
    \cup {MapV(<<e, Entry(Str("m"), SeqV(<<l>>))>>) :
             e \in {Entry(Str("a"), x) : x \in ElemLeaf}, l \in ElemLeaf}
Trees == Leaf \cup Seqs \cup Maps \cup Nested

(***************************************************************************)
(* Calls of the three public functions on one scope.                        *)
(***************************************************************************)
NoEnv ==
    [keep_trailing_newline |-> FALSE, undefined_behavior |-> "",
     functions |-> {}, templates |-> NoTemplates]
Threads == 1..NThreads
Shared == 0

ConcInit ==
    /\ lazy = "uninit"
    /\ initCount = 0
    /\ envs = [i \in {Shared} \cup Threads |-> NoEnv]
    /\ tpc = [t \in Threads |-> "idle"]
    /\ tsrc = [t \in Threads |-> ""]
    /\ tenv = [t \in Threads |-> Shared]
    /\ tout = [t \in Threads |-> NoOutcome]

Init ==
    /\ pc = "idle"
    /\ vars \in Scopes
    /\ op = "none"
    /\ value = Null
    /\ src = ""
    /\ result = NoOutcome
    /\ engine = EngineOk("")
    /\ ConcInit

CallRender ==
    /\ pc = "idle"
    /\ \E v \in Trees :
          /\ value' = v
          /\ result' = render(v, vars)
    /\ op' = "render"
    /\ pc' = "done"
    /\ UNCHANGED <<vars, src, engine>>
    /\ UNCHANGED concVars

CallRenderString ==
    /\ pc = "idle"
    /\ \E s \in Templates :
          /\ src' = s
          /\ result' = render_string(s, vars)
          /\ engine' = RenderStringIn(MINIJINJA_ENV, s, vars).engine
    /\ op' = "render_string"
    /\ pc' = "done"
    /\ UNCHANGED <<vars, value>>
    /\ UNCHANGED concVars

CallIsRenderString ==
    /\ pc = "idle"
    /\ \E s \in CondExprs :
          /\ src' = s
          /\ result' = is_render_string(s, vars)
          /\ engine' = RenderStringIn(MINIJINJA_ENV, IfTemplate(s), vars).engine
    /\ op' = "is_render_string"
    /\ pc' = "done"
    /\ UNCHANGED <<vars, value>>
    /\ UNCHANGED concVars

Next == CallRender \/ CallRenderString \/ CallIsRenderString

Spec == Init /\ [][Next]_allVars

(***************************************************************************)
(* Properties.                                                              *)
(***************************************************************************)
Rendered == pc = "done" /\ op = "render"
RenderedString == pc = "done" /\ op = "render_string"
Evaluated == pc = "done" /\ op = "is_render_string"

RECURSIVE ChainScope(_, _, _), ExtendedScope(_, _, _)

(* The running scope when key i of a mapping is reached: the incoming scope *)
(* merged, as render merges it, with the earlier keys of that mapping.      *)
ChainScope(entries, scope, i) ==
    IF i = 1 THEN scope
    ELSE LET prev == ChainScope(entries, scope, i - 1) IN
         context_merge(prev, Bind(entries[i - 1].key.s,
                                  render(entries[i - 1].val, prev).v))
ChildAt(entries, scope, i) == render(entries[i].val, ChainScope(entries, scope, i))
Reached(entries, scope, i) ==
    \A j \in 1..(i - 1) :
        ChildAt(entries, scope, j).st = "ok" /\ entries[j].key.k = "str"

(* The incoming scope extended with k_j -> rendered(k_j) for every j < i,   *)
(* each name resolving to the rendered value.                               *)
ExtendedScope(entries, scope, i) ==
    IF i = 1 THEN scope
    ELSE LET prev == ExtendedScope(entries, scope, i - 1) IN
         [x \in DOMAIN prev \cup {entries[i - 1].key.s} |->
             IF x = entries[i - 1].key.s
             THEN render(entries[i - 1].val, prev).v
             ELSE prev[x]]

(* C1: in a rendered mapping the value of every key k_i is the render of its *)
(* input against the incoming scope extended with k_j -> rendered(k_j) for   *)
(* all j < i, whatever the incoming scope already binds.                     *)
C1_ScopeChaining ==
    (Rendered /\ value.k = "map" /\ result.st = "ok") =>
        \A i \in 1..Len(value.entries) :
            result.v.entries[i].val =
                render(value.entries[i].val, ExtendedScope(value.entries, vars, i)).v

(* C2: every element of a sequence is rendered against the incoming scope   *)
(* alone, and key i of a mapping against the incoming scope and the earlier  *)
(* keys of that same mapping alone.                                          *)
C2_ScopeLocality ==
    Rendered =>
        /\ value.k = "seq" =>
              /\ result.st = "ok" <=>
                    \A i \in 1..Len(value.items) : render(value.items[i], vars).st = "ok"
              /\ result.st = "ok" =>
                    \A i \in 1..Len(value.items) :
                        result.v.items[i] = render(value.items[i], vars).v
        /\ (value.k = "map" /\ result.st = "ok") =>
              \A i \in 1..Len(value.entries) :
                  result.v.entries[i].val = ChildAt(value.entries, vars, i).v

C2_Witness ==
    /\ Rendered
    /\ value = SeqV(<<MapV(<<Entry(Str("a"), Str("{{ 1 }}"))>>), Str(VarTemplate("a"))>>)
    /\ "a" \notin DOMAIN vars
    /\ result.st = "err"

(* C3: the first child, in input order, whose render fails decides the       *)
(* render of a sequence or mapping: the node returns that child's error and *)
(* no value.                                                                 *)
C3_FailFast ==
    Rendered =>
        /\ value.k = "seq" =>
              \A i \in 1..Len(value.items) :
                  (/\ render(value.items[i], vars).st = "err"
                   /\ \A j \in 1..(i - 1) : render(value.items[j], vars).st = "ok")
                  => result = render(value.items[i], vars)
        /\ value.k = "map" =>
              \A i \in 1..Len(value.entries) :
                  (/\ Reached(value.entries, vars, i)
                   /\ ChildAt(value.entries, vars, i).st = "err")
                  => result = ChildAt(value.entries, vars, i)
        /\ result.st = "err" => result.v = Null

C3_Witness ==
    /\ Rendered
    /\ value = SeqV(<<Str("["), Str(VarTemplate("a"))>>)
    /\ "a" \notin DOMAIN vars
    /\ result = Err(FromYamlError)

(* C4: a failure of the engine in render_string becomes OmitParam exactly    *)
(* when its detail is the omit marker, and otherwise the generic error that *)
(* carries the engine's diagnostic.                                          *)
C4_ErrorClassification ==
    RenderedString =>
        /\ engine.ok <=> result.st = "ok"
        /\ ~engine.ok =>
              /\ result.st = "err"
              /\ result.e.kind = "OmitParam" <=> engine.err.detail = Detail(OMIT_MESSAGE)
              /\ result.e.kind # "OmitParam" =>
                    result.e = Error("RenderFailed", Display(engine.err))

C4_Witness ==
    /\ RenderedString
    /\ src = "{{ omit() }}"
    /\ engine.err.detail = Detail(OMIT_MESSAGE)
    /\ result = Err(Error("OmitParam", OMIT_MESSAGE))

(* C5: "{{ x | default(omit()) }}" fails with OmitParam when x is not bound  *)
(* and yields the value of x when it is.                                     *)
C5_DefaultOmit ==
    RenderedString =>
        \A x \in Names :
            src = DefaultOmitTemplate(x) =>
                IF x \in DOMAIN vars
                THEN result = OkText(Fmt(vars[x]))
                ELSE result = Err(Error("OmitParam", OMIT_MESSAGE))

(* C6 as stated: render returns null, a boolean or a number unchanged.       *)
C6_ScalarIdentity ==
    (Rendered /\ value.k \in {"null", "bool", "num"}) => result = OkValue(value)

(* C6 amended: render returns a boolean or a number unchanged, and fails on  *)
(* null with the InvalidData error.                                          *)
C6_ScalarIdentityAmended ==
    Rendered =>
        /\ value.k \in {"bool", "num"} => result = OkValue(value)
        /\ value.k = "null" =>
              result = Err(Error("InvalidData", "not a valid render value"))

C6_Witness == Rendered /\ value = Bool(TRUE) /\ result = OkValue(Bool(TRUE))

(* C7: render of a mapping with a key that is not a string returns an error *)
(* value.                                                                    *)
C7_NonStringKey ==
    (/\ Rendered
     /\ value.k = "map"
     /\ \E i \in 1..Len(value.entries) : value.entries[i].key.k # "str")
    => result.st = "err"

(* C8: is_render_string returns Ok(false) exactly when the wrapped template  *)
(* renders to "false", Ok(true) otherwise, and an error when the engine      *)
(* fails.                                                                    *)
C8_Condition ==
    Evaluated =>
        /\ engine.ok => /\ engine.text \in {"true", "false"}
                        /\ result = OkBool(engine.text # "false")
        /\ ~engine.ok => result.st = "err"
        /\ src = "true" => result = OkBool(TRUE)
        /\ src = "false" => result = OkBool(FALSE)
        /\ (src = "a == 'test'" /\ "a" \in DOMAIN vars /\ vars["a"] = Str("test"))
              => result = OkBool(TRUE)

C8_Witness ==
    /\ Evaluated
    /\ src = "a == 'test'"
    /\ "a" \in DOMAIN vars
    /\ vars["a"] = Str("test")
    /\ result = OkBool(TRUE)

(* C10 as stated: a template that references a name the scope does not bind *)
(* fails with the generic error.                                             *)
C10_StrictUndefined ==
    RenderedString =>
        \A x \in Names \ DOMAIN vars :
            src \in {VarTemplate(x), DefaultOmitTemplate(x)} =>
                result.st = "err" /\ result.e.kind = "RenderFailed"

(* C10 amended: a template that prints a name the scope of that render does  *)
(* not bind fails with the generic error; wrapped in default(omit()) it      *)
(* fails with OmitParam; it never succeeds.                                  *)
C10_StrictUndefinedAmended ==
    /\ RenderedString =>
          \A x \in Names \ DOMAIN vars :
              /\ src = VarTemplate(x) =>
                    result = Err(FromMinijinjaError(UndefinedError))
              /\ src = DefaultOmitTemplate(x) =>
                    result = Err(Error("OmitParam", OMIT_MESSAGE))
    /\ Rendered =>
          /\ value.k = "str" =>
                \A x \in Names \ DOMAIN vars :
                    value.s = VarTemplate(x) =>
                        result = Err(FromMinijinjaError(UndefinedError))
          /\ value.k = "map" =>
                \A i \in 1..Len(value.entries) :
                    \A x \in Names :
                        (/\ Reached(value.entries, vars, i)
                         /\ value.entries[i].val = Str(VarTemplate(x))
                         /\ x \notin DOMAIN vars
                         /\ \A j \in 1..(i - 1) : value.entries[j].key # Str(x))
                        => result = Err(FromMinijinjaError(UndefinedError))

C10_Witness ==
    /\ Rendered
    /\ value = MapV(<<Entry(Str("a"), Str("{{ 1 }}")), Entry(Str("b"), Str(VarTemplate("b")))>>)
    /\ "b" \notin DOMAIN vars
    /\ result.st = "err"
    /\ result.e.kind = "RenderFailed"

(***************************************************************************)
(* Concurrent callers of render_string.  MINIJINJA_ENV is a LazyLock: the   *)
(* first dereference runs init_env while the others wait for it.            *)
(***************************************************************************)
ConcTemplates == {"yea", VarTemplate("a"), "{{ a", "{{ omit() }}"}
ConcScopes == {s \in Scopes : DOMAIN s \subseteq {"a"}}

(* MINIJINJA_ENV.clone(): the environment the caller goes on to use.         *)
CloneTargetShared(t) == Shared

CloneTarget(t) == t

InitConc ==
    /\ pc = "idle"
    /\ vars \in ConcScopes
    /\ op = "none"
    /\ value = Null
    /\ src = ""
    /\ result = NoOutcome
    /\ engine = EngineOk("")
    /\ ConcInit

Begin(t) ==
    /\ tpc[t] = "idle"
    /\ \E s \in ConcTemplates : tsrc' = [tsrc EXCEPT ![t] = s]
    /\ tpc' = [tpc EXCEPT ![t] = "deref"]
    /\ UNCHANGED <<lazy, initCount, envs, tenv, tout>>
    /\ UNCHANGED pureVars

Deref(t) ==
    /\ tpc[t] = "deref"
    /\ \/ /\ lazy = "uninit"
          /\ lazy' = "running"
          /\ tpc' = [tpc EXCEPT ![t] = "init"]
       \/ /\ lazy = "ready"
          /\ lazy' = lazy
          /\ tpc' = [tpc EXCEPT ![t] = "clone"]
    /\ UNCHANGED <<initCount, envs, tsrc, tenv, tout>>
    /\ UNCHANGED pureVars

InitEnv(t) ==
    /\ tpc[t] = "init"
    /\ envs' = [envs EXCEPT ![Shared] = init_env]
    /\ initCount' = initCount + 1
    /\ lazy' = "ready"
    /\ tpc' = [tpc EXCEPT ![t] = "clone"]
    /\ UNCHANGED <<tsrc, tenv, tout>>
    /\ UNCHANGED pureVars

Clone(t) ==
    /\ tpc[t] = "clone"
    /\ tenv' = [tenv EXCEPT ![t] = CloneTarget(t)]
    /\ envs' = [envs EXCEPT ![CloneTarget(t)] = envs[Shared]]
    /\ tpc' = [tpc EXCEPT ![t] = "add"]
    /\ UNCHANGED <<lazy, initCount, tsrc, tout>>
    /\ UNCHANGED pureVars

AddTemplate(t) ==
    /\ tpc[t] = "add"
    /\ LET added == add_template(envs[tenv[t]], "t", tsrc[t]) IN
          \/ /\ added.ok
             /\ envs' = [envs EXCEPT ![tenv[t]] = added.env]
             /\ tpc' = [tpc EXCEPT ![t] = "get"]
             /\ tout' = tout
          \/ /\ ~added.ok
             /\ envs' = envs
             /\ tpc' = [tpc EXCEPT ![t] = "done"]
             /\ tout' = [tout EXCEPT ![t] = Err(FromMinijinjaError(added.err))]
    /\ UNCHANGED <<lazy, initCount, tsrc, tenv>>
    /\ UNCHANGED pureVars

GetAndRender(t) ==
    /\ tpc[t] = "get"
    /\ LET tmpl == get_template(envs[tenv[t]], "t") IN
          tout' = [tout EXCEPT ![t] =
                      IF ~tmpl.ok THEN Err(map_minijinja_error(tmpl.err))
                      ELSE LET r == TemplateRender(envs[tenv[t]], tmpl.s, vars) IN
                           IF r.ok THEN OkText(r.text)
                           ELSE Err(map_minijinja_error(r.err))]
    /\ tpc' = [tpc EXCEPT ![t] = "done"]
    /\ UNCHANGED <<lazy, initCount, envs, tsrc, tenv>>
    /\ UNCHANGED pureVars

(* The call returns: its copy of the environment is dropped.                *)
Return(t) ==
    /\ tpc[t] = "done"
    /\ tpc' = [tpc EXCEPT ![t] = "idle"]
    /\ tsrc' = [tsrc EXCEPT ![t] = ""]
    /\ tout' = [tout EXCEPT ![t] = NoOutcome]
    /\ envs' = IF tenv[t] = Shared THEN envs ELSE [envs EXCEPT ![tenv[t]] = NoEnv]
    /\ tenv' = [tenv EXCEPT ![t] = Shared]
    /\ UNCHANGED <<lazy, initCount>>
    /\ UNCHANGED pureVars

NextConc ==
    \E t \in Threads :
        \/ Begin(t)
        \/ Deref(t)
        \/ InitEnv(t)
        \/ Clone(t)
        \/ AddTemplate(t)
        \/ GetAndRender(t)
        \/ Return(t)

SpecConc == InitConc /\ [][NextConc]_allVars

(* C9: the shared engine is built once and never changed; every call        *)
(* registers "t" on an environment of its own and renders its own source.   *)
C9_EngineIsolation ==
    /\ initCount <= 1
    /\ lazy = "ready" => (initCount = 1 /\ envs[Shared] = init_env)
    /\ lazy # "ready" => (initCount = 0 /\ envs[Shared] = NoEnv)
    /\ \A t \in Threads :
          /\ tpc[t] \in {"add", "get", "done"} =>
                /\ tenv[t] # Shared
                /\ \A u \in Threads \ {t} : tenv[u] # tenv[t]
          /\ tpc[t] = "get" => get_template(envs[tenv[t]], "t").s = tsrc[t]
          /\ tpc[t] = "done" => tout[t] = render_string(tsrc[t], vars)

C9_Witness ==
    /\ initCount = 1
    /\ tpc[1] = "done"
    /\ tpc[2] = "get"
    /\ tsrc[1] = VarTemplate("a")
    /\ tsrc[2] = "yea"
    /\ "a" \in DOMAIN vars
    /\ tout[1] = OkText(Fmt(vars["a"]))

====
